---- MODULE Spec2Model ----
(***************************************************************************)
(* The transaction engine of the internal wallet service: the executor     *)
(* (LedgerService.executeTransaction), the double-entry writer             *)
(* (LedgerService.executeDoubleEntry), the ordered-lock coordinator        *)
(* (DeadlockPreventer.withOrderedLocks), the Redis lock primitives and the *)
(* idempotency helpers, over a PostgreSQL database at serializable         *)
(* isolation and a Redis store whose keys expire.                          *)
(***************************************************************************)
EXTENDS Integers, Sequences, FiniteSets, TLC

(***************************************************************************)
(* Bounds of the model.                                                    *)
(***************************************************************************)
\* executeTransaction invocations in one behaviour
MaxCalls == 2
\* Redis keys that reach their TTL in one behaviour
MaxExpiries == 2
\* last reading of the millisecond clock
MaxClock == 1

Calls == 1..MaxCalls

(***************************************************************************)
(* Program constants.                                                      *)
(***************************************************************************)
\* withOrderedLocks(walletIds, operation, maxRetries = 3)
maxRetries == 3

TREASURY_GOLD == "wallet-treasury-gold"
REVENUE_GOLD == "wallet-revenue-gold"
U1_GOLD == "wallet-user1-gold"
\* an id that names no wallet row
UNKNOWN_WALLET == "wallet-unknown"
\* operation.fromWalletId left out (undefined)
NoWallet == ""
GOLD == "asset-gold-coin-001"

\* the wallet getOrCreateWallet created for a user without one: balance 0,
\* version 0, and an id generated by the database (a uuid)
U3_GOLD == "3f6c1d2e-user3-gold"

WalletIds == {TREASURY_GOLD, REVENUE_GOLD, U1_GOLD, U3_GOLD}

\* The wallets table after seeding: balance, version 0 and owner type of
\* each row.  The user wallet opens with the balance of the concurrent
\* spenders scenario.
SeedWallets ==
  [w \in WalletIds |->
     [balance |-> CASE w = TREASURY_GOLD -> 10000000
                    [] w = REVENUE_GOLD -> 0
                    [] w = U3_GOLD -> 0
                    [] OTHER -> 15,
      version |-> 0,
      ownerType |-> IF w \in {U1_GOLD, U3_GOLD} THEN "USER" ELSE "SYSTEM"]]

Keys == {"k1", "k2"}
\* the keys in the order callers first use them
KeyOrder == <<"k1", "k2">>

(***************************************************************************)
(* Values.                                                                 *)
(***************************************************************************)
\* a JavaScript undefined in a field that holds a decimal string
Undefined == <<"undefined">>
NoRecord == [status |-> "NONE"]
NoToken == <<>>
\* redis.get of a key that is not set: null
NoText == <<>>
NoRow == [balance |-> 0, version |-> -1, ownerType |-> "NONE"]
NoRequest == [type |-> "NONE", fromWalletId |-> NoWallet, toWalletId |-> NoWallet,
              assetTypeId |-> GOLD, amount |-> 0, idempotencyKey |-> "none"]
NoOutcome == [kind |-> "none", result |-> NoRecord, error |-> ""]

\* LedgerOperation with its transaction type, as the callers build it
Operation(type, from, to, amount) ==
  [type |-> type, fromWalletId |-> from, toWalletId |-> to,
   assetTypeId |-> GOLD, amount |-> amount]

\* PURCHASE of 10 from the user wallet to Revenue
Spend10 == Operation("PURCHASE", U1_GOLD, REVENUE_GOLD, 10)
\* TOPUP of 10 from Treasury to the user wallet
TopUp10 == Operation("TOPUP", TREASURY_GOLD, U1_GOLD, 10)
\* an operation that names no source wallet
Mint10 == Operation("BONUS", NoWallet, U1_GOLD, 10)
\* an operation with a negative amount
TopUpNeg20 == Operation("TOPUP", TREASURY_GOLD, U1_GOLD, -20)
\* the reverse direction of Spend10: a BONUS from Revenue to the user, of
\* the amount "0", which the amount pattern of the controller admits and
\* the empty Revenue wallet can pay
Bonus0 == Operation("BONUS", REVENUE_GOLD, U1_GOLD, 0)
\* the bonus of 50 that grantBonus builds for a user whose wallet was just
\* created: Revenue is its source
Bonus50 == Operation("BONUS", REVENUE_GOLD, U3_GOLD, 50)

\* operations that name a wallet id without a row: as destination, as
\* source, and as both
PayUnknown == Operation("PURCHASE", U1_GOLD, UNKNOWN_WALLET, 10)
FromUnknown == Operation("TOPUP", UNKNOWN_WALLET, U1_GOLD, 10)
BothUnknown == Operation("PURCHASE", UNKNOWN_WALLET, UNKNOWN_WALLET, 10)

\* an operation whose source and destination are the same wallet
SelfPay10 == Operation("PURCHASE", U1_GOLD, U1_GOLD, 10)

VARIABLES
  operations,    \* the operations each caller may issue in this behaviour
  keys,          \* the idempotency keys callers use in this behaviour
  wallets,       \* wallets table: id -> row
  ledger,        \* ledger_entries table, rows in commit order
  transactions,  \* transactions table, rows in commit order
  lock,          \* Redis lock:wallet:<id> -> token
  processing,    \* Redis processing:<key> markers that are set
  idempotency,   \* Redis idempotency:<key> -> stored JSON
  now,           \* the millisecond clock (Date.now())
  expiries,      \* Redis expiries so far
  lockExpired,   \* history: a lock key has reached its TTL while set
  pc,            \* where each call is
  req,           \* type, operation and idempotencyKey of each call
  attempt,       \* withOrderedLocks: attempt
  locks,         \* withOrderedLocks: locks (never cleared between attempts)
  rel,           \* the locks the running release loop iterates over
  idx,           \* index of the running loop (acquire or release)
  rd,            \* executeDoubleEntry: fromWallet and toWallet as read
  buf,           \* rows written inside the open database transaction
  err,           \* the error caught by withOrderedLocks / executeTransaction
  outcome,       \* what each finished call returned or raised
  doneBefore,    \* history: the calls that had finished when a call began
  opened         \* history: database transactions each call has opened

dbVars == <<wallets, ledger, transactions>>
redisVars == <<lock, processing, idempotency>>
callVars == <<pc, req, attempt, locks, rel, idx, rd, buf, err, outcome, doneBefore, opened>>
vars == <<operations, keys, wallets, ledger, transactions, lock, processing,
          idempotency, now, expiries, lockExpired, pc, req, attempt, locks,
          rel, idx, rd, buf, err, outcome, doneBefore, opened>>

NoReads == [from |-> NoRow, to |-> NoRow]
NoBuf == [entries |-> <<>>, result |-> NoRecord]

InitWith(ops, ks, t0) ==
  /\ operations = ops
  /\ keys = ks
  /\ wallets = SeedWallets
  /\ ledger = <<>>
  /\ transactions = <<>>
  /\ lock = [w \in WalletIds \cup {UNKNOWN_WALLET} |-> NoToken]
  /\ processing = {}
  /\ idempotency = [k \in Keys |-> NoText]
  /\ now = t0
  /\ expiries = 0
  /\ lockExpired = FALSE
  /\ pc = [c \in Calls |-> "idle"]
  /\ req = [c \in Calls |-> NoRequest]
  /\ attempt = [c \in Calls |-> 0]
  /\ locks = [c \in Calls |-> <<>>]
  /\ rel = [c \in Calls |-> <<>>]
  /\ idx = [c \in Calls |-> 1]
  /\ rd = [c \in Calls |-> NoReads]
  /\ buf = [c \in Calls |-> NoBuf]
  /\ err = [c \in Calls |-> ""]
  /\ outcome = [c \in Calls |-> NoOutcome]
  /\ doneBefore = [c \in Calls |-> {}]
  /\ opened = [c \in Calls |-> 0]

\* every caller may issue every operation of S
AnyOf(S) == [c \in Calls |-> S]

Init == InitWith(AnyOf({Spend10, Mint10}), Keys, 0)


(***************************************************************************)
(* Pure helpers.                                                           *)
(***************************************************************************)
\* position of each id under String.prototype.localeCompare
IdRank == [w \in WalletIds \cup {UNKNOWN_WALLET} |->
             CASE w = U3_GOLD -> 0
               [] w = REVENUE_GOLD -> 1
               [] w = TREASURY_GOLD -> 2
               [] w = UNKNOWN_WALLET -> 3
               [] OTHER -> 4]

localeCompare(a, b) ==
  IF IdRank[a] < IdRank[b] THEN -1 ELSE IF IdRank[a] > IdRank[b] THEN 1 ELSE 0

RECURSIVE Insert(_, _)
Insert(s, x) ==
  IF s = <<>> THEN <<x>>
  ELSE IF localeCompare(x, Head(s)) < 0 THEN <<x>> \o s
       ELSE <<Head(s)>> \o Insert(Tail(s), x)

RECURSIVE sortIdsFrom(_, _)
sortIdsFrom(ids, acc) ==
  IF ids = <<>> THEN acc ELSE sortIdsFrom(Tail(ids), Insert(acc, Head(ids)))

\* DeadlockPreventer.sortIds: [...ids].sort((a, b) => a.localeCompare(b))
\* the ids in the order the caller gave them, as a coordinator that skipped
\* the sort would lock them
idsAsGiven(ids) == ids

sortIds(ids) == sortIdsFrom(ids, <<>>)

\* [operation.fromWalletId, operation.toWalletId].filter(Boolean)
walletIds(r) ==
  SelectSeq(<<r.fromWalletId, r.toWalletId>>, LAMBDA w : w # NoWallet)

Reverse(s) == [i \in 1..Len(s) |-> s[Len(s) + 1 - i]]

Digit(d) == CASE d = 0 -> "0" [] d = 1 -> "1" [] d = 2 -> "2" [] d = 3 -> "3"
              [] d = 4 -> "4" [] d = 5 -> "5" [] d = 6 -> "6" [] d = 7 -> "7"
              [] d = 8 -> "8" [] OTHER -> "9"

RECURSIVE Digits(_)
Digits(n) == IF n < 10 THEN <<Digit(n)>> ELSE Digits(n \div 10) \o <<Digit(n % 10)>>

\* Prisma.Decimal.toString() of an integral decimal: the characters
DecimalToString(n) == IF n < 0 THEN <<"-">> \o Digits(-n) ELSE Digits(n)

OptionalFields == {"fromBalance"}

\* the members of the result objects, in the order the object literals
\* of executeTransaction and storeIdempotency write them
MemberOrder == <<"transactionId", "status", "fromBalance", "toBalance", "error",
                 "_idempotencyStored", "_storedAt">>

\* JSON.stringify: the members in order as <<name, value>>, without the
\* members whose value is undefined
JSONStringify(obj) ==
  LET kept == SelectSeq(MemberOrder,
                LAMBDA g : g \in DOMAIN obj
                           /\ ~(g \in OptionalFields /\ obj[g] = Undefined))
  IN [i \in 1..Len(kept) |-> <<kept[i], obj[kept[i]]>>]

\* JSON.parse: the object with the members of the text
JSONParse(text) ==
  [f \in {text[i][1] : i \in 1..Len(text)} |->
     text[CHOOSE i \in 1..Len(text) : text[i][1] = f][2]]

\* { ...result, _idempotencyStored: true, _storedAt: new Date().toISOString() }
WithStoreMarks(result, at) ==
  [f \in DOMAIN result \cup {"_idempotencyStored", "_storedAt"} |->
     IF f = "_idempotencyStored" THEN TRUE
     ELSE IF f = "_storedAt" THEN at
     ELSE result[f]]

\* uuidv4() for the transaction header: a value no other call draws
transactionId(c) == c

\* uuidv4() for the ledger entries.  The values are random; the model
\* keeps of them their order, which ORDER BY "createdAt", id observes
\* between entries of one wallet.  The two entries of a transaction lie
\* on different wallets, so a transaction draws one free position u and
\* its CREDIT and DEBIT get the ids 2u - 1 and 2u
UuidSlots == 1..MaxCalls
FreeUuidSlots == UuidSlots \ {(ledger[i].id + 1) \div 2 : i \in 1..Len(ledger)}
uuidv4(u, n) == 2 * u - 2 + n

\* tx.wallet.findUnique({ where: { id } }): the row or null
findUnique(id) == IF id \in DOMAIN wallets THEN wallets[id] ELSE NoRow

(***************************************************************************)
(* The database transaction a call has open.                               *)
(***************************************************************************)
hasFrom(c) == req[c].fromWalletId # NoWallet

\* the header row of c is inserted and not yet committed or rolled back
HeaderPending(c) == pc[c] \in {"updateFrom", "updateTo", "commit"}

\* c has updated wallet row w inside its open transaction
HoldsRow(c, w) ==
  \/ pc[c] \in {"updateTo", "commit"} /\ hasFrom(c) /\ req[c].fromWalletId = w
  \/ pc[c] = "commit" /\ req[c].toWalletId = w

RowLockedByOther(c, w) == \E d \in Calls \ {c} : HoldsRow(d, w)

KeyPendingByOther(c) ==
  \E d \in Calls \ {c} :
     HeaderPending(d) /\ req[d].idempotencyKey = req[c].idempotencyKey

\* the version of row w the statements of c see: the committed row, or
\* the call's own update of it
VisibleVersion(c, w) ==
  IF HoldsRow(c, w) THEN wallets[w].version + 1 ELSE wallets[w].version

\* c waits for a row or index entry another open transaction holds
Blocked(c) ==
  \/ pc[c] = "transaction" /\ KeyPendingByOther(c)
  \/ pc[c] = "updateFrom" /\ RowLockedByOther(c, req[c].fromWalletId)
  \/ pc[c] = "updateTo" /\ RowLockedByOther(c, req[c].toWalletId)


(***************************************************************************)
(* Control flow of withOrderedLocks.  A flow record names where a call    *)
(* goes next and the values of its loop variables there.                   *)
(***************************************************************************)
Flow(c) == [pc |-> pc[c], attempt |-> attempt[c], err |-> err[c],
            idx |-> idx[c], rel |-> rel[c], locks |-> locks[c]]

SetFlow(c, n) ==
  /\ pc' = [pc EXCEPT ![c] = n.pc]
  /\ attempt' = [attempt EXCEPT ![c] = n.attempt]
  /\ err' = [err EXCEPT ![c] = n.err]
  /\ idx' = [idx EXCEPT ![c] = n.idx]
  /\ rel' = [rel EXCEPT ![c] = n.rel]
  /\ locks' = [locks EXCEPT ![c] = n.locks]

\* where a call goes when a release loop has ended: after Phase 3 it
\* returns to the executor (storeIdempotency); after the catch block it
\* throws on (attempt >= maxRetries) or, after the backoff, starts the
\* next attempt with the locks array as it is
AfterRelease(c, e) ==
  IF e = ""
  THEN [pc |-> "store", attempt |-> 0, err |-> "", idx |-> 1,
        rel |-> <<>>, locks |-> <<>>]
  ELSE IF attempt[c] + 1 >= maxRetries
       THEN [pc |-> "store", attempt |-> 0, err |-> e, idx |-> 1,
             rel |-> <<>>, locks |-> <<>>]
       ELSE [pc |-> "acquire", attempt |-> attempt[c] + 1, err |-> "", idx |-> 1,
             rel |-> <<>>, locks |-> locks[c]]

\* entering a release loop over the list l
EnterRelease(c, l, e) ==
  IF l = <<>> THEN AfterRelease(c, e)
  ELSE [pc |-> "release", attempt |-> attempt[c], err |-> e, idx |-> 1,
        rel |-> l, locks |-> locks[c]]

\* a catch block without the release loop: the error leads to the retry
\* or the throw with the locks still held
ThrowWithoutRelease(c, e) ==
  /\ SetFlow(c, AfterRelease(c, e))
  /\ rd' = [rd EXCEPT ![c] = NoReads]
  /\ buf' = [buf EXCEPT ![c] = NoBuf]

\* an error thrown inside the try block of withOrderedLocks: an open
\* database transaction rolls back, and the catch block releases every
\* entry of locks, in the order of the array
Throw(c, e) ==
  /\ SetFlow(c, EnterRelease(c, locks[c], e))
  /\ rd' = [rd EXCEPT ![c] = NoReads]
  /\ buf' = [buf EXCEPT ![c] = NoBuf]

\* the release loop moves past entry idx[c]
NextRelease(c) ==
  IF idx[c] < Len(rel[c])
  THEN SetFlow(c, [Flow(c) EXCEPT !.pc = "release", !.idx = idx[c] + 1])
  ELSE SetFlow(c, AfterRelease(c, err[c]))

(***************************************************************************)
(* executeTransaction, up to the call of withOrderedLocks.                 *)
(***************************************************************************)
\* the keys a caller may pass: one that an earlier call used (a retry)
\* or the next key no call has used yet
UsedKeys == {req[d].idempotencyKey : d \in {e \in Calls : pc[e] # "idle"}}
CallerKeys ==
  {k \in keys : k \in UsedKeys
                \/ \A i \in 1..Len(KeyOrder) :
                     KeyOrder[i] = k =>
                       \A j \in 1..(i - 1) : KeyOrder[j] \in UsedKeys \/ KeyOrder[j] \notin keys}

\* a caller invokes executeTransaction(type, operation, idempotencyKey)
Invoke(c) ==
  /\ pc[c] = "idle"
  /\ IF c = 1 THEN TRUE ELSE pc[c - 1] # "idle"
  /\ \E op \in operations[c], k \in CallerKeys :
       req' = [req EXCEPT ![c] =
                 [type |-> op.type, fromWalletId |-> op.fromWalletId,
                  toWalletId |-> op.toWalletId, assetTypeId |-> op.assetTypeId,
                  amount |-> op.amount, idempotencyKey |-> k]]
  /\ pc' = [pc EXCEPT ![c] = "check"]
  /\ doneBefore' = [doneBefore EXCEPT ![c] = {d \in Calls : pc[d] = "done"}]
  /\ UNCHANGED <<operations, keys, dbVars, redisVars, now, expiries, lockExpired, attempt,
                 locks, rel, idx, rd, buf, err, outcome, opened>>

\* checkIdempotency: a stored text is parsed and returned
checkIdempotency(c) ==
  /\ pc[c] = "check"
  /\ LET cached == idempotency[req[c].idempotencyKey] IN
     IF cached # NoText
     THEN /\ pc' = [pc EXCEPT ![c] = "done"]
          /\ outcome' = [outcome EXCEPT ![c] =
                           [kind |-> "return", result |-> JSONParse(cached),
                            error |-> ""]]
     ELSE /\ pc' = [pc EXCEPT ![c] = "mark"]
          /\ UNCHANGED outcome
  /\ UNCHANGED <<operations, keys, dbVars, redisVars, now, expiries, lockExpired, req,
                 attempt, locks, rel, idx, rd, buf, err, doneBefore, opened>>

\* the claim taken inside the try block: REQUEST_ALREADY_PROCESSING is
\* caught, stored as a failed result, and the finally block deletes the
\* marker
markProcessingInsideTry(c) ==
  /\ pc[c] = "mark"
  /\ IF req[c].idempotencyKey \in processing
     THEN /\ pc' = [pc EXCEPT ![c] = "store"]
          /\ err' = [err EXCEPT ![c] = "REQUEST_ALREADY_PROCESSING"]
          /\ UNCHANGED processing
     ELSE /\ processing' = processing \cup {req[c].idempotencyKey}
          /\ pc' = [pc EXCEPT ![c] =
                      IF walletIds(req[c]) = <<>> THEN "transaction" ELSE "acquire"]
          /\ UNCHANGED err
  /\ UNCHANGED <<operations, keys, dbVars, lock, idempotency, now, expiries, lockExpired,
                 req, attempt, locks, rel, idx, rd, buf, outcome, doneBefore,
                 opened>>

\* markProcessing: SET processing:<key> NX; REQUEST_ALREADY_PROCESSING is
\* thrown before the try block, so nothing is stored and nothing unmarked
markProcessing(c) ==
  /\ pc[c] = "mark"
  /\ IF req[c].idempotencyKey \in processing
     THEN /\ pc' = [pc EXCEPT ![c] = "done"]
          /\ outcome' = [outcome EXCEPT ![c] =
                           [kind |-> "raise", result |-> NoRecord,
                            error |-> "REQUEST_ALREADY_PROCESSING"]]
          /\ UNCHANGED processing
     ELSE /\ processing' = processing \cup {req[c].idempotencyKey}
          /\ pc' = [pc EXCEPT ![c] =
                      IF walletIds(req[c]) = <<>> THEN "transaction" ELSE "acquire"]
          /\ UNCHANGED outcome
  /\ UNCHANGED <<operations, keys, dbVars, lock, idempotency, now, expiries, lockExpired,
                 req, attempt, locks, rel, idx, rd, buf, err, doneBefore, opened>>

(***************************************************************************)
(* withOrderedLocks and the lock primitives.                               *)
(***************************************************************************)
\* the message of the Error thrown when acquireLock returns null (the
\* wallet id that follows it in the message is left out)
FailedToAcquire == "Failed to acquire lock for wallet"

\* the token of the next acquisition of c: unique per acquisition
NewToken(c) == <<c, Len(locks[c]) + 1>>

\* Phase 1 with a SET that lacks NX: the token is written whatever the
\* key holds
acquireLockWithoutNX(c) ==
  /\ pc[c] = "acquire"
  /\ LET sortedIds == sortIds(walletIds(req[c]))
         id == sortedIds[idx[c]]
         held == Append(locks[c], [id |-> id, token |-> NewToken(c)])
     IN /\ lock' = [lock EXCEPT ![id] = NewToken(c)]
        /\ SetFlow(c, IF idx[c] < Len(sortedIds)
                      THEN [Flow(c) EXCEPT !.idx = idx[c] + 1, !.locks = held]
                      ELSE [Flow(c) EXCEPT !.idx = 1, !.locks = held,
                                           !.pc = "transaction"])
        /\ UNCHANGED <<rd, buf>>
  /\ UNCHANGED <<operations, keys, dbVars, processing, idempotency, now,
                 expiries, lockExpired, req, outcome, doneBefore, opened>>

\* Phase 1, one iteration: acquireLock is SET lock:wallet:<id> <token> NX
acquireLock(c) ==
  /\ pc[c] = "acquire"
  /\ LET sortedIds == sortIds(walletIds(req[c]))
         id == sortedIds[idx[c]]
         held == Append(locks[c], [id |-> id, token |-> NewToken(c)])
     IN IF lock[id] = NoToken
        THEN /\ lock' = [lock EXCEPT ![id] = NewToken(c)]
             /\ SetFlow(c, IF idx[c] < Len(sortedIds)
                           THEN [Flow(c) EXCEPT !.idx = idx[c] + 1, !.locks = held]
                           ELSE [Flow(c) EXCEPT !.idx = 1, !.locks = held,
                                                !.pc = "transaction"])
             /\ UNCHANGED <<rd, buf>>
        ELSE /\ Throw(c, FailedToAcquire)
             /\ UNCHANGED lock
  /\ UNCHANGED <<operations, keys, dbVars, processing, idempotency, now,
                 expiries, lockExpired, req, outcome, doneBefore, opened>>

\* releaseLock, first half: redis.get and the comparison with the token
releaseLockGet(c) ==
  /\ pc[c] = "release"
  /\ IF lock[rel[c][idx[c]].id] = rel[c][idx[c]].token
     THEN SetFlow(c, [Flow(c) EXCEPT !.pc = "releaseDel"])
     ELSE NextRelease(c)
  /\ UNCHANGED <<operations, keys, dbVars, redisVars, now, expiries, lockExpired, req,
                 rd, buf, outcome, doneBefore, opened>>

\* a releaseLock that reads the key and leaves it in place
releaseLockWithoutDel(c) ==
  /\ pc[c] = "releaseDel"
  /\ NextRelease(c)
  /\ UNCHANGED <<operations, keys, dbVars, redisVars, now,
                 expiries, lockExpired, req, rd, buf, outcome, doneBefore, opened>>

\* releaseLock, second half: redis.del of the key, whatever it holds now
releaseLockDel(c) ==
  /\ pc[c] = "releaseDel"
  /\ lock' = [lock EXCEPT ![rel[c][idx[c]].id] = NoToken]
  /\ NextRelease(c)
  /\ UNCHANGED <<operations, keys, dbVars, processing, idempotency, now,
                 expiries, lockExpired, req, rd, buf, outcome, doneBefore, opened>>

(***************************************************************************)
(* The database transaction: the header insert and executeDoubleEntry.     *)
(***************************************************************************)
\* the message of the error Prisma raises when tx.transaction.create hits
\* the unique index
UniqueViolation == "Unique constraint failed on the fields: (idempotencyKey)"

\* a transactions table without the unique index: no insert is rejected
noUniqueIndex(k) == FALSE

\* the unique index transactions_idempotencyKey_key rejects the insert
DuplicateKey(k) == \E i \in 1..Len(transactions) : transactions[i].idempotencyKey = k

\* the checks without the comparison of the source balance with the amount
validateWalletsOnly(r, fromWallet, toWallet) ==
  IF toWallet = NoRow THEN "DESTINATION_WALLET_NOT_FOUND"
  ELSE IF r.fromWalletId # NoWallet /\ fromWallet = NoRow THEN "SOURCE_WALLET_NOT_FOUND"
  ELSE ""

\* the checks with the source looked at before the destination
validateSourceFirst(r, fromWallet, toWallet) ==
  IF r.fromWalletId # NoWallet /\ fromWallet = NoRow THEN "SOURCE_WALLET_NOT_FOUND"
  ELSE IF toWallet = NoRow THEN "DESTINATION_WALLET_NOT_FOUND"
  ELSE IF fromWallet # NoRow /\ fromWallet.balance < r.amount THEN "INSUFFICIENT_BALANCE"
  ELSE ""

\* the three checks of executeDoubleEntry after the reads: the error
\* thrown, or "" when the operation passes
validate(r, fromWallet, toWallet) ==
  IF toWallet = NoRow THEN "DESTINATION_WALLET_NOT_FOUND"
  ELSE IF r.fromWalletId # NoWallet /\ fromWallet = NoRow THEN "SOURCE_WALLET_NOT_FOUND"
  ELSE IF fromWallet # NoRow /\ fromWallet.balance < r.amount THEN "INSUFFICIENT_BALANCE"
  ELSE ""

\* entries whose runningBalance is the balance read, the amount not applied
entriesWithBalanceRead(c, r, fromWallet, toWallet, timestamp) ==
  LET credit == [transactionId |-> transactionId(c), walletId |-> r.toWalletId,
                 assetTypeId |-> r.assetTypeId, entryType |-> "CREDIT",
                 amount |-> r.amount,
                 runningBalance |-> toWallet.balance,
                 counterpartyWalletId |-> r.fromWalletId,
                 createdAt |-> timestamp]
      debit == [transactionId |-> transactionId(c), walletId |-> r.fromWalletId,
                assetTypeId |-> r.assetTypeId, entryType |-> "DEBIT",
                amount |-> r.amount,
                runningBalance |-> fromWallet.balance,
                counterpartyWalletId |-> r.toWalletId,
                createdAt |-> timestamp]
  IN IF r.fromWalletId # NoWallet /\ fromWallet # NoRow
     THEN <<credit, debit>> ELSE <<credit>>

\* the ledger entries executeDoubleEntry creates, CREDIT first; the DEBIT
\* only under if (fromWalletId && fromWallet)
entriesOf(c, r, fromWallet, toWallet, timestamp) ==
  LET credit == [transactionId |-> transactionId(c), walletId |-> r.toWalletId,
                 assetTypeId |-> r.assetTypeId, entryType |-> "CREDIT",
                 amount |-> r.amount,
                 runningBalance |-> toWallet.balance + r.amount,
                 counterpartyWalletId |-> r.fromWalletId,
                 createdAt |-> timestamp]
      debit == [transactionId |-> transactionId(c), walletId |-> r.fromWalletId,
                assetTypeId |-> r.assetTypeId, entryType |-> "DEBIT",
                amount |-> r.amount,
                runningBalance |-> fromWallet.balance - r.amount,
                counterpartyWalletId |-> r.toWalletId,
                createdAt |-> timestamp]
  IN IF r.fromWalletId # NoWallet /\ fromWallet # NoRow
     THEN <<credit, debit>> ELSE <<credit>>

\* a result that reports the balances read, the amount not applied
resultOfBalancesRead(c, r, fromWallet, toWallet) ==
  [transactionId |-> transactionId(c),
   status |-> "COMPLETED",
   fromBalance |-> IF r.fromWalletId # NoWallet /\ fromWallet # NoRow
                   THEN DecimalToString(fromWallet.balance)
                   ELSE Undefined,
   toBalance |-> DecimalToString(toWallet.balance)]

\* the TransactionResult the $transaction callback returns
resultOf(c, r, fromWallet, toWallet) ==
  [transactionId |-> transactionId(c),
   status |-> "COMPLETED",
   fromBalance |-> IF r.fromWalletId # NoWallet /\ fromWallet # NoRow
                   THEN DecimalToString(fromWallet.balance - r.amount)
                   ELSE Undefined,
   toBalance |-> DecimalToString(toWallet.balance + r.amount)]

\* Phase 2 begins: prisma.$transaction opens, tx.transaction.create inserts
\* the header, executeDoubleEntry reads both wallets from the snapshot,
\* checks them, takes the timestamp and creates the ledger entries
openTransaction(c) ==
  /\ pc[c] = "transaction"
  /\ ~KeyPendingByOther(c)
  /\ opened' = [opened EXCEPT ![c] = opened[c] + 1]
  /\ LET r == req[c]
         fromWallet == IF r.fromWalletId # NoWallet
                       THEN findUnique(r.fromWalletId) ELSE NoRow
         toWallet == findUnique(r.toWalletId)
         e == IF DuplicateKey(r.idempotencyKey)
              THEN UniqueViolation
              ELSE validate(r, fromWallet, toWallet)
     IN IF e # ""
        THEN /\ Throw(c, e)
             /\ UNCHANGED now
        ELSE /\ \E timestamp \in {now, now + 1} :
                  /\ timestamp <= MaxClock
                  /\ now' = timestamp
                  /\ buf' = [buf EXCEPT ![c] =
                               [entries |-> entriesOf(c, r, fromWallet, toWallet, timestamp),
                                result |-> resultOf(c, r, fromWallet, toWallet)]]
             /\ rd' = [rd EXCEPT ![c] = [from |-> fromWallet, to |-> toWallet]]
             /\ pc' = [pc EXCEPT ![c] =
                         IF r.fromWalletId # NoWallet THEN "updateFrom" ELSE "updateTo"]
             /\ UNCHANGED <<attempt, err, rel, idx, locks>>
  /\ UNCHANGED <<operations, keys, dbVars, redisVars, expiries, lockExpired, req,
                 outcome, doneBefore>>

\* an update by id alone, without the version in its where clause
whereIdOnly(c, w, read) == TRUE

\* the where clause of updateMany: the row still has the version read
versionMatches(c, w, read) == VisibleVersion(c, w) = read.version

\* what a lost compare-and-swap raises: count === 0 throws the
\* CONCURRENT_MODIFICATION error; PostgreSQL at serializable isolation
\* aborts the statement itself when the row was updated by a transaction
\* that committed after the snapshot
ConflictErrors(which) == {which, "could not serialize access due to concurrent update"}

\* tx.wallet.updateMany on the source wallet
updateSource(c) ==
  /\ pc[c] = "updateFrom"
  /\ ~RowLockedByOther(c, req[c].fromWalletId)
  /\ IF versionMatches(c, req[c].fromWalletId, rd[c].from)
     THEN /\ pc' = [pc EXCEPT ![c] = "updateTo"]
          /\ UNCHANGED <<attempt, err, rel, idx, locks, rd, buf>>
     ELSE \E e \in ConflictErrors("CONCURRENT_MODIFICATION_SOURCE") : Throw(c, e)
  /\ UNCHANGED <<operations, keys, dbVars, redisVars, now, expiries, lockExpired, req,
                 outcome, doneBefore, opened>>

\* tx.wallet.updateMany on the destination wallet
updateDestination(c) ==
  /\ pc[c] = "updateTo"
  /\ ~RowLockedByOther(c, req[c].toWalletId)
  /\ IF versionMatches(c, req[c].toWalletId, rd[c].to)
     THEN /\ pc' = [pc EXCEPT ![c] = "commit"]
          /\ UNCHANGED <<attempt, err, rel, idx, locks, rd, buf>>
     ELSE \E e \in ConflictErrors("CONCURRENT_MODIFICATION_DESTINATION") : Throw(c, e)
  /\ UNCHANGED <<operations, keys, dbVars, redisVars, now, expiries, lockExpired, req,
                 outcome, doneBefore, opened>>

\* updates that credit the destination and leave the source balance as it
\* was
walletsSourceNotDebited(c) ==
  LET r == req[c]
      w1 == IF hasFrom(c)
            THEN [wallets EXCEPT ![r.fromWalletId].version = @ + 1]
            ELSE wallets
  IN [w1 EXCEPT ![r.toWalletId].balance = rd[c].to.balance + r.amount,
                ![r.toWalletId].version = @ + 1]

\* updates that set the balances and leave the destination version as it
\* was
walletsVersionKept(c) ==
  LET r == req[c]
      w1 == IF hasFrom(c)
            THEN [wallets EXCEPT ![r.fromWalletId].balance = rd[c].from.balance - r.amount,
                                 ![r.fromWalletId].version = @ + 1]
            ELSE wallets
  IN [w1 EXCEPT ![r.toWalletId].balance = rd[c].to.balance + r.amount]

\* the wallets table with the updates of c applied: balance set to the
\* computed result, version incremented
walletsAfter(c) ==
  LET r == req[c]
      w1 == IF hasFrom(c)
            THEN [wallets EXCEPT ![r.fromWalletId].balance = rd[c].from.balance - r.amount,
                                 ![r.fromWalletId].version = @ + 1]
            ELSE wallets
  IN [w1 EXCEPT ![r.toWalletId].balance = rd[c].to.balance + r.amount,
                ![r.toWalletId].version = @ + 1]

\* a header created without its status: the column default applies
headerOfDefaultStatus(c) ==
  [id |-> transactionId(c), type |-> req[c].type,
   idempotencyKey |-> req[c].idempotencyKey, status |-> "PENDING"]

\* the header row of c
headerOf(c) ==
  [id |-> transactionId(c), type |-> req[c].type,
   idempotencyKey |-> req[c].idempotencyKey, status |-> "COMPLETED"]

\* the callback returned: the transaction commits, every row at once; the
\* uuidv4 ids of the entries become visible with them.  Phase 3 follows:
\* locks.reverse() and the release loop
commitTransaction(c) ==
  /\ pc[c] = "commit"
  /\ transactions' = Append(transactions, headerOf(c))
  /\ \E u \in FreeUuidSlots :
       ledger' = ledger \o
         [n \in 1..Len(buf[c].entries) |->
            [f \in DOMAIN buf[c].entries[n] \cup {"id"} |->
               IF f = "id" THEN uuidv4(u, n) ELSE buf[c].entries[n][f]]]
  /\ wallets' = walletsAfter(c)
  /\ SetFlow(c, [EnterRelease(c, Reverse(locks[c]), "") EXCEPT
                   !.locks = IF @ = <<>> THEN @ ELSE Reverse(locks[c])])
  /\ rd' = [rd EXCEPT ![c] = NoReads]
  /\ buf' = [buf EXCEPT ![c].entries = <<>>]
  /\ UNCHANGED <<operations, keys, redisVars, now, expiries, lockExpired, req,
                 outcome, doneBefore, opened>>

\* the message of the error with which a transaction ended while waiting
AbortedWait == "Transaction API error: transaction aborted while waiting"

\* a transaction that waits for a row or an index entry held by another
\* open transaction is ended by the database (deadlock detection) or by
\* Prisma (timeout: 10000); it rolls back
abortBlocked(c) ==
  /\ Blocked(c)
  /\ Throw(c, AbortedWait)
  /\ UNCHANGED <<operations, keys, dbVars, redisVars, now, expiries, lockExpired, req,
                 outcome, doneBefore, opened>>

(***************************************************************************)
(* executeTransaction, after withOrderedLocks.                             *)
(***************************************************************************)
\* the failedResult of the catch block
failedResultOf(c) ==
  [transactionId |-> transactionId(c), status |-> "FAILED", error |-> err[c]]

\* storeIdempotency(key, result) on success, storeIdempotency(key,
\* failedResult, 3600) in the catch block
storeIdempotency(c) ==
  /\ pc[c] = "store"
  /\ idempotency' = [idempotency EXCEPT ![req[c].idempotencyKey] =
       JSONStringify(WithStoreMarks(
         IF err[c] = "" THEN buf[c].result ELSE failedResultOf(c), now))]
  /\ pc' = [pc EXCEPT ![c] = "unmark"]
  /\ UNCHANGED <<operations, keys, dbVars, lock, processing, now, expiries, lockExpired,
                 req, attempt, locks, rel, idx, rd, buf, err, outcome,
                 doneBefore, opened>>

\* an executor without the finally block: the call ends and the marker
\* stays until its TTL
finishWithoutUnmark(c) ==
  /\ pc[c] = "unmark"
  /\ pc' = [pc EXCEPT ![c] = "done"]
  /\ outcome' = [outcome EXCEPT ![c] =
       IF err[c] = ""
       THEN [kind |-> "return", result |-> buf[c].result, error |-> ""]
       ELSE [kind |-> "raise", result |-> NoRecord, error |-> err[c]]]
  /\ err' = [err EXCEPT ![c] = ""]
  /\ buf' = [buf EXCEPT ![c] = NoBuf]
  /\ opened' = [opened EXCEPT ![c] = 0]
  /\ UNCHANGED <<operations, keys, dbVars, redisVars, now, expiries, lockExpired,
                 req, attempt, locks, rel, idx, rd, doneBefore>>

\* finally: unmarkProcessing; then the result is returned or the error
\* thrown on to the caller
unmarkProcessing(c) ==
  /\ pc[c] = "unmark"
  /\ processing' = processing \ {req[c].idempotencyKey}
  /\ pc' = [pc EXCEPT ![c] = "done"]
  /\ outcome' = [outcome EXCEPT ![c] =
       IF err[c] = ""
       THEN [kind |-> "return", result |-> buf[c].result, error |-> ""]
       ELSE [kind |-> "raise", result |-> NoRecord, error |-> err[c]]]
  /\ err' = [err EXCEPT ![c] = ""]
  /\ buf' = [buf EXCEPT ![c] = NoBuf]
  /\ opened' = [opened EXCEPT ![c] = 0]
  /\ UNCHANGED <<operations, keys, dbVars, lock, idempotency, now, expiries, lockExpired,
                 req, attempt, locks, rel, idx, rd, doneBefore>>

(***************************************************************************)
(* Redis: a key with a TTL reaches it.                                     *)
(***************************************************************************)
redisExpire ==
  /\ expiries < MaxExpiries
  /\ expiries' = expiries + 1
  /\ \/ \E w \in DOMAIN lock :
          /\ lock[w] # NoToken
          /\ lock' = [lock EXCEPT ![w] = NoToken]
          /\ lockExpired' = TRUE
          /\ UNCHANGED <<processing, idempotency>>
     \/ \E k \in processing :
          /\ processing' = processing \ {k}
          /\ UNCHANGED <<lock, idempotency, lockExpired>>
     \/ \E k \in Keys :
          /\ idempotency[k] # NoText
          /\ idempotency' = [idempotency EXCEPT ![k] = NoText]
          /\ UNCHANGED <<lock, processing, lockExpired>>
  /\ UNCHANGED <<operations, keys, dbVars, now, callVars>>

(***************************************************************************)
(* The specification.                                                      *)
(***************************************************************************)
\* one step of call c
Step(c) ==
  \/ checkIdempotency(c)
  \/ markProcessing(c)
  \/ acquireLock(c)
  \/ releaseLockGet(c)
  \/ releaseLockDel(c)
  \/ openTransaction(c)
  \/ updateSource(c)
  \/ updateDestination(c)
  \/ commitTransaction(c)
  \/ abortBlocked(c)
  \/ storeIdempotency(c)
  \/ unmarkProcessing(c)

Next ==
  \/ \E c \in Calls : Invoke(c)
  \/ \E c \in Calls : Step(c)
  \/ redisExpire

Spec == Init /\ [][Next]_vars


\* concurrent spenders: every call is the PURCHASE of 10 from the user
\* wallet, whose balance is 15
InitSpend == InitWith(AnyOf({Spend10}), Keys, 0)
SpecSpend == InitSpend /\ [][Next]_vars

\* callers that pass a negative amount
InitAmounts == InitWith(AnyOf({TopUpNeg20}), Keys, 0)
SpecAmounts == InitAmounts /\ [][Next]_vars

\* callers that grant the bonus to the fresh user, next to spenders
InitBonus == InitWith(AnyOf({Bonus50, Spend10}), Keys, 0)
SpecBonus == InitBonus /\ [][Next]_vars

\* callers that name wallets without a row, next to a mint and a top-up
InitMissing ==
  InitWith([c \in Calls |-> IF c % 2 = 1 THEN {PayUnknown, BothUnknown, Mint10}
                                         ELSE {FromUnknown, TopUp10}], Keys, 0)
SpecMissing == InitMissing /\ [][Next]_vars

\* callers that pay a wallet from itself, next to spenders
InitSelf == InitWith(AnyOf({SelfPay10, Spend10}), Keys, 0)
SpecSelf == InitSelf /\ [][Next]_vars

\* callers that name the same two wallets in opposite directions: a
\* spender next to a bonus grant.  Every await of a call resolves (Redis
\* answers, the database answers or ends the transaction), so each call
\* keeps taking steps
InitFair ==
  InitWith([c \in Calls |-> IF c % 2 = 1 THEN {Spend10} ELSE {Bonus0}], Keys, MaxClock)
FairSpec == InitFair /\ [][Next]_vars /\ \A c \in Calls : WF_vars(Step(c))

(***************************************************************************)
(* Vocabulary of the properties.                                           *)
(***************************************************************************)
Finished(c) == pc[c] = "done"
Running(c) == pc[c] \notin {"idle", "done"}
HeaderRows(c) == {i \in 1..Len(transactions) : transactions[i].id = transactionId(c)}
Committed(c) == HeaderRows(c) # {}
EntriesOfTx(t) == {i \in 1..Len(ledger) : ledger[i].transactionId = t}
EntriesOfWallet(w) == {i \in 1..Len(ledger) : ledger[i].walletId = w}
Field(obj, f) == IF f \in DOMAIN obj THEN obj[f] ELSE Undefined

RECURSIVE SumAmounts(_)
SumAmounts(S) ==
  IF S = {} THEN 0
  ELSE LET i == CHOOSE j \in S : TRUE
       IN (IF ledger[i].entryType = "CREDIT" THEN ledger[i].amount
           ELSE 0 - ledger[i].amount) + SumAmounts(S \ {i})

(***************************************************************************)
(* C1.  Idempotent replay: when executeTransaction(type, op, k) is invoked *)
(* again after the first invocation has finished, the second invocation    *)
(* returns a result with the transactionId and the fromBalance/toBalance   *)
(* strings the first returned, and commits nothing.                        *)
(***************************************************************************)
C1_IdempotentReplay ==
  \A p \in Calls, q \in Calls :
     (Finished(q) /\ p \in doneBefore[q] /\ req[p] = req[q]
        /\ outcome[p].kind = "return")
     => /\ outcome[q].kind = "return"
        /\ outcome[q].result.transactionId = outcome[p].result.transactionId
        /\ Field(outcome[q].result, "fromBalance") = Field(outcome[p].result, "fromBalance")
        /\ Field(outcome[q].result, "toBalance") = Field(outcome[p].result, "toBalance")
        /\ ~Committed(q)

(***************************************************************************)
(* C2.  No double spend: of two PURCHASE calls of 10 with distinct keys    *)
(* from the same source wallet of balance 15 to the same destination, at   *)
(* most one commits, in every interleaving and with wallet locks expiring  *)
(* while held.                                                             *)
(***************************************************************************)
C2_NoDoubleSpend ==
  \A p \in Calls, q \in Calls :
     (p # q /\ req[p].idempotencyKey # req[q].idempotencyKey)
     => ~(Committed(p) /\ Committed(q))

\* one spender has committed while the other, whose locks were lost to
\* expiry, is inside its transaction with the balance 15 it read before
C2_Witness ==
  \E p \in Calls, q \in Calls :
     /\ p # q /\ req[p].idempotencyKey # req[q].idempotencyKey
     /\ Committed(p)
     /\ pc[q] = "updateFrom" /\ rd[q].from.balance = 15
     /\ expiries > 0

(***************************************************************************)
(* C3.  Non-negativity: every wallet with ownerType USER has balance >= 0  *)
(* in every committed state.                                               *)
(***************************************************************************)
C3_UserBalancesNonNegative ==
  \A w \in DOMAIN wallets : wallets[w].ownerType = "USER" => wallets[w].balance >= 0

C5_DoubleEntry ==
  \A n \in 1..Len(transactions) :
     LET es == EntriesOfTx(transactions[n].id) IN
     /\ Cardinality(es) = 2
     /\ \E i \in es, j \in es :
          /\ ledger[i].entryType = "DEBIT" /\ ledger[j].entryType = "CREDIT"
          /\ ledger[i].amount = ledger[j].amount
          /\ ledger[i].assetTypeId = ledger[j].assetTypeId

(***************************************************************************)
(* C6.  Key uniqueness: no two Transaction rows have the same              *)
(* idempotencyKey, under any interleaving and any loss or expiry of        *)
(* idempotency records and in-flight markers.                              *)
(***************************************************************************)
C6_KeyUniqueness ==
  \A i \in 1..Len(transactions), j \in 1..Len(transactions) :
     transactions[i].idempotencyKey = transactions[j].idempotencyKey => i = j

\* after the loss of a Redis key, a call carrying the key of a committed
\* row reached the header insert and was refused by the unique index
C6_Witness ==
  \E c \in Calls :
     /\ err[c] = UniqueViolation
     /\ DuplicateKey(req[c].idempotencyKey)
     /\ expiries > 0

(***************************************************************************)
(* C7.  All or nothing: every step either leaves the transactions,         *)
(* ledger_entries and wallets tables as they were, or commits one header,  *)
(* two ledger entries and two wallet balance/version updates together.     *)
(***************************************************************************)
C7_FullCommit ==
  /\ Len(transactions') = Len(transactions) + 1
  /\ SubSeq(transactions', 1, Len(transactions)) = transactions
  /\ Len(ledger') = Len(ledger) + 2
  /\ SubSeq(ledger', 1, Len(ledger)) = ledger
  /\ Cardinality({w \in DOMAIN wallets : wallets'[w] # wallets[w]}) = 2
  /\ \A w \in DOMAIN wallets :
       wallets'[w] # wallets[w] => wallets'[w].version = wallets[w].version + 1

C7_AllOrNothing == [][dbVars' = dbVars \/ C7_FullCommit]_vars

(***************************************************************************)
(* C8.  Deadlock freedom: every call that was invoked finishes, and in no  *)
(* reachable state is there a cycle of calls each holding a wallet lock    *)
(* and waiting for a lock held by another.                                 *)
(***************************************************************************)
Holds(c, w) == lock[w] # NoToken /\ lock[w][1] = c

\* c is about to request lock w
Wants(c, w) ==
  /\ pc[c] = "acquire"
  /\ sortIds(walletIds(req[c]))[idx[c]] = w

WaitsFor(c, d) ==
  /\ c # d
  /\ \E w \in DOMAIN lock : Holds(c, w)
  /\ \E w \in DOMAIN lock : Wants(c, w) /\ Holds(d, w)

RECURSIVE ReachableFrom(_, _)
ReachableFrom(S, n) ==
  IF n = 0 THEN S
  ELSE ReachableFrom(S \cup {d \in Calls : \E c \in S : WaitsFor(c, d)}, n - 1)

NoWaitCycle ==
  \A c \in Calls :
     c \notin ReachableFrom({d \in Calls : WaitsFor(c, d)}, MaxCalls)

C8_DeadlockFreedom ==
  /\ []NoWaitCycle
  /\ \A c \in Calls : Running(c) ~> Finished(c)

\* a call holds its first lock and requests its second, which a call with
\* the same wallet set holds
C8_Witness ==
  \E c \in Calls, d \in Calls :
     /\ WaitsFor(c, d)
     /\ req[c].fromWalletId = req[d].toWalletId
     /\ req[c].toWalletId = req[d].fromWalletId


(***************************************************************************)
(* C9.  Version monotonicity: a wallet's version never decreases; each     *)
(* committed executeTransaction raises the version of each wallet its      *)
(* operation names by exactly 1 and of every other wallet by 0; so a       *)
(* wallet's version equals the number of committed transactions that       *)
(* updated it.                                                             *)
(***************************************************************************)
\* the committed transactions whose operation names wallet w
CommitsOn(txs, w) ==
  {n \in 1..Len(txs) : w \in {req[txs[n].id].fromWalletId, req[txs[n].id].toWalletId}}

C9_VersionCounts ==
  \A w \in DOMAIN wallets :
     wallets[w].version = Cardinality(CommitsOn(transactions, w))

C9_VersionStep ==
  \A w \in DOMAIN wallets :
     wallets'[w].version = wallets[w].version
        + Cardinality(CommitsOn(transactions', w)) - Cardinality(CommitsOn(transactions, w))

C9_VersionMonotonic == []C9_VersionCounts /\ [][C9_VersionStep]_vars

\* a wallet that two committed transactions updated
C9_Witness ==
  /\ wallets[U1_GOLD].version = 2
  /\ wallets[REVENUE_GOLD].version = 1

(***************************************************************************)
(* C10.  Running-balance chain as claimed: for every wallet, with its      *)
(* ledger entries ordered by (createdAt, id), each entry's runningBalance  *)
(* is the previous entry's runningBalance (the opening balance for the     *)
(* first) plus the amount of a CREDIT or minus the amount of a DEBIT.      *)
(***************************************************************************)
ByCreatedAtThenId(i, j) ==
  \/ ledger[i].createdAt < ledger[j].createdAt
  \/ ledger[i].createdAt = ledger[j].createdAt /\ ledger[i].id < ledger[j].id

ByCreatedAtThenCommit(i, j) ==
  \/ ledger[i].createdAt < ledger[j].createdAt
  \/ ledger[i].createdAt = ledger[j].createdAt /\ i < j

Signed(i) ==
  IF ledger[i].entryType = "CREDIT" THEN ledger[i].amount ELSE 0 - ledger[i].amount

\* the running balance before entry i of wallet w under the order Before
Carried(w, i, Before(_, _)) ==
  LET earlier == {j \in EntriesOfWallet(w) : Before(j, i)} IN
  IF earlier = {} THEN SeedWallets[w].balance
  ELSE ledger[CHOOSE j \in earlier : \A k \in earlier \ {j} : Before(k, j)].runningBalance

Chain(Before(_, _)) ==
  \A w \in DOMAIN wallets : \A i \in EntriesOfWallet(w) :
     ledger[i].runningBalance = Carried(w, i, Before) + Signed(i)

C10_ChainByCreatedAtThenId == Chain(ByCreatedAtThenId)

\* C10 as amended: the chain holds with the entries of a wallet ordered by
\* createdAt and, among entries of equal createdAt, by commit order.
C10_ChainByCreatedAtThenCommit == Chain(ByCreatedAtThenCommit)

\* two transactions committed on one wallet with equal createdAt, and the
\* entry committed second has the smaller id
C10_Witness ==
  \E i \in EntriesOfWallet(U1_GOLD), j \in EntriesOfWallet(U1_GOLD) :
     /\ i < j
     /\ ledger[i].createdAt = ledger[j].createdAt
     /\ ledger[j].id < ledger[i].id

(***************************************************************************)
(* C11.  Cache loss does not move money twice: when a Transaction row with *)
(* key k exists and a further executeTransaction with key k does not find  *)
(* a record for k in the cache, that call is rejected (it raises) and      *)
(* commits nothing: no header, no ledger entry, no wallet update.          *)
(***************************************************************************)
\* the value a call returned came from the idempotency cache
FromCache(c) ==
  outcome[c].kind = "return" /\ "_idempotencyStored" \in DOMAIN outcome[c].result

\* call p had finished and committed under the key of q when q began
RowExistedFor(p, q) ==
  /\ p \in doneBefore[q]
  /\ Committed(p)
  /\ req[p].idempotencyKey = req[q].idempotencyKey

C11_CacheLossNoSecondCommit ==
  \A p \in Calls, q \in Calls :
     RowExistedFor(p, q)
     => /\ ~Committed(q)
        /\ EntriesOfTx(transactionId(q)) = {}
        /\ (Finished(q) /\ ~FromCache(q)) => outcome[q].kind = "raise"

\* the record of the committed call was lost, and the replay of a key
\* whose operation would pass every check of the writer was rejected
C11_Witness ==
  \E p \in Calls, q \in Calls :
     /\ RowExistedFor(p, q)
     /\ req[q].fromWalletId = NoWallet
     /\ Finished(q) /\ outcome[q].kind = "raise"
     /\ outcome[q].error = UniqueViolation

(***************************************************************************)
(* C12.  When the error that ends a call is the failure of the header      *)
(* insert on an existing idempotencyKey, the error executeTransaction      *)
(* raises to its caller is REQUEST_ALREADY_PROCESSING.                     *)
(***************************************************************************)
\* the step in which call c leaves the finally block and settles
Settles(c) == pc[c] = "unmark" /\ pc'[c] = "done"

C12_DuplicateKeyTranslated ==
  [][\A c \in Calls :
       (Settles(c) /\ err[c] = UniqueViolation)
       => /\ outcome'[c].kind = "raise"
          /\ outcome'[c].error = "REQUEST_ALREADY_PROCESSING"]_vars

(***************************************************************************)
(* C13.  When executeTransaction found no stored result for its key and    *)
(* the in-flight marker of the key is set, it fails with                   *)
(* REQUEST_ALREADY_PROCESSING in that step: it acquires no wallet lock,    *)
(* writes nothing to the database, stores no idempotency record and does   *)
(* not delete the marker.                                                  *)
(***************************************************************************)
C13_AlreadyProcessing ==
  [][\A c \in Calls :
       (pc[c] = "mark" /\ pc'[c] # "mark" /\ req[c].idempotencyKey \in processing)
       => /\ pc'[c] = "done"
          /\ outcome'[c] = [kind |-> "raise", result |-> NoRecord,
                            error |-> "REQUEST_ALREADY_PROCESSING"]
          /\ locks'[c] = <<>>
          /\ lock' = lock
          /\ dbVars' = dbVars
          /\ idempotency' = idempotency
          /\ processing' = processing]_vars

\* a call was turned away while the call that set the marker was still
\* running under it
C13_Witness ==
  \E c \in Calls, d \in Calls :
     /\ c # d /\ req[c].idempotencyKey = req[d].idempotencyKey
     /\ Finished(c) /\ outcome[c].error = "REQUEST_ALREADY_PROCESSING"
     /\ pc[d] \in {"acquire", "transaction", "updateFrom", "updateTo", "commit"}
     /\ req[d].idempotencyKey \in processing
     /\ idempotency[req[c].idempotencyKey] = NoText

(***************************************************************************)
(* C14.  On an idempotency cache hit the value returned is, field for      *)
(* field, the TransactionResult the original invocation returned to its    *)
(* caller: no field added, removed or changed.                             *)
(***************************************************************************)
\* q returned from the cache the record of the transaction p executed
ReplayOf(q, p) ==
  /\ p # q
  /\ Finished(q) /\ FromCache(q)
  /\ outcome[q].result.transactionId = transactionId(p)
  /\ Finished(p) /\ outcome[p].kind = "return" /\ ~FromCache(p)

C14_VerbatimReplay ==
  \A p \in Calls, q \in Calls :
     ReplayOf(q, p) => outcome[q].result = outcome[p].result

(***************************************************************************)
(* C15.  Failure path.  The double-entry writer, reading a source balance  *)
(* less than the amount, throws INSUFFICIENT_BALANCE; and a call that ends *)
(* with this error has written no row, stores a record with status FAILED  *)
(* under idempotency:<key>, raises INSUFFICIENT_BALANCE to its caller and  *)
(* leaves the in-flight marker of the key cleared.                         *)
(***************************************************************************)
\* the writer of c reads both wallets and the source cannot pay
SourceCannotPay(c) ==
  /\ pc[c] = "transaction"
  /\ ~KeyPendingByOther(c) /\ ~DuplicateKey(req[c].idempotencyKey)
  /\ hasFrom(c)
  /\ findUnique(req[c].fromWalletId) # NoRow /\ findUnique(req[c].toWalletId) # NoRow
  /\ findUnique(req[c].fromWalletId).balance < req[c].amount

\* withOrderedLocks has thrown INSUFFICIENT_BALANCE to the executor
EndsInsufficient(c) ==
  pc[c] \in {"store", "unmark"} /\ err[c] = "INSUFFICIENT_BALANCE"

C15_NoRowOnFailure ==
  \A c \in Calls :
     (EndsInsufficient(c) \/ outcome[c].error = "INSUFFICIENT_BALANCE")
     => ~Committed(c) /\ EntriesOfTx(transactionId(c)) = {}

C15_FailureSteps ==
  \A c \in Calls :
     /\ (SourceCannotPay(c) /\ pc'[c] # "transaction")
        => err'[c] = "INSUFFICIENT_BALANCE" /\ dbVars' = dbVars
     /\ (EndsInsufficient(c) /\ pc[c] = "store" /\ pc'[c] = "unmark")
        => /\ JSONParse(idempotency'[req[c].idempotencyKey]).status = "FAILED"
           /\ JSONParse(idempotency'[req[c].idempotencyKey]).error = "INSUFFICIENT_BALANCE"
           /\ dbVars' = dbVars
     /\ (EndsInsufficient(c) /\ Settles(c))
        => /\ outcome'[c].kind = "raise"
           /\ outcome'[c].error = "INSUFFICIENT_BALANCE"
           /\ req[c].idempotencyKey \notin processing'
           /\ dbVars' = dbVars

C15_FailurePath == []C15_NoRowOnFailure /\ [][C15_FailureSteps]_vars

\* a spender whose source had 5 left has raised INSUFFICIENT_BALANCE; its
\* FAILED record is in the cache and its marker is gone
C15_Witness ==
  \E c \in Calls :
     /\ Finished(c) /\ outcome[c].error = "INSUFFICIENT_BALANCE"
     /\ wallets[req[c].fromWalletId].balance = 5
     /\ idempotency[req[c].idempotencyKey] # NoText
     /\ JSONParse(idempotency[req[c].idempotencyKey]).status = "FAILED"
     /\ JSONParse(idempotency[req[c].idempotencyKey]).transactionId = transactionId(c)
     /\ req[c].idempotencyKey \notin processing

(***************************************************************************)
(* C16.  Infrastructure failures are not cached: a call that fails because *)
(* its wallet locks could not be acquired within the retry budget stores   *)
(* no failed result under its idempotency key.                             *)
(***************************************************************************)
C16_LockFailureNotCached ==
  [][\A c \in Calls :
       (pc[c] = "store" /\ pc'[c] = "unmark" /\ err[c] = FailedToAcquire)
       => idempotency' = idempotency]_vars

(***************************************************************************)
(* C17.  When the retries of withOrderedLocks are exhausted on a failed    *)
(* lock acquisition, the error executeTransaction raises to its caller is  *)
(* LOCK_UNAVAILABLE.                                                       *)
(***************************************************************************)
C17_LockUnavailable ==
  [][\A c \in Calls :
       (Settles(c) /\ err[c] = FailedToAcquire)
       => /\ outcome'[c].kind = "raise"
          /\ outcome'[c].error = "LOCK_UNAVAILABLE"]_vars

(***************************************************************************)
(* C18.  Lock mutual exclusion: a lock key that holds a token changes only *)
(* by becoming absent (release or expiry), never by taking another token;  *)
(* and an acquireLock on a key that holds a token returns null: the caller *)
(* records no token and throws the acquisition failure.                    *)
(***************************************************************************)
\* the lock id call c requests next
Requested(c) == sortIds(walletIds(req[c]))[idx[c]]

\* call c takes a step of its acquisition loop
AcquireStep(c) ==
  /\ pc[c] = "acquire"
  /\ pc'[c] # "acquire" \/ attempt'[c] # attempt[c] \/ idx'[c] # idx[c]

C18_MutualExclusion ==
  [][/\ \A w \in DOMAIN lock :
          lock[w] # NoToken => lock'[w] \in {lock[w], NoToken}
     /\ \A c \in Calls :
          (AcquireStep(c) /\ lock[Requested(c)] # NoToken)
          => /\ lock' = lock
             /\ locks'[c] = locks[c]
             /\ pc'[c] \in {"release", "store"} => err'[c] = FailedToAcquire]_vars

\* acquireLock returned null to a call because another call's token was
\* under the key, and that token is still there
C18_Witness ==
  \E c \in Calls, d \in Calls :
     /\ c # d
     /\ pc[c] \in {"release", "store"} /\ err[c] = FailedToAcquire
     /\ \E w \in {req[c].fromWalletId, req[c].toWalletId} \ {NoWallet} :
          lock[w] # NoToken /\ lock[w][1] = d
     /\ pc[d] = "transaction"

(***************************************************************************)
(* C19.  Token-owned release: releaseLock(name, token) deletes the lock    *)
(* key only when the value stored at the moment of the deletion is token;  *)
(* a caller whose lock expired and was re-acquired by another owner does   *)
(* not remove the new owner's lock.                                        *)
(***************************************************************************)
C19_TokenOwnedRelease ==
  [][\A c \in Calls :
       (pc[c] = "releaseDel" /\ pc'[c] # "releaseDel")
       => \A w \in DOMAIN lock :
            lock'[w] # lock[w] => lock[w] = rel[c][idx[c]].token]_vars

(***************************************************************************)
(* C20.  Concurrent spenders as claimed: of two PURCHASE calls of 10 with  *)
(* distinct keys from the same source wallet of balance 15 to the same     *)
(* destination, exactly one succeeds with fromBalance 5 and the other      *)
(* fails with INSUFFICIENT_BALANCE and with no other error.                *)
(***************************************************************************)
Succeeded5(c) ==
  /\ outcome[c].kind = "return"
  /\ outcome[c].result.status = "COMPLETED"
  /\ outcome[c].result.fromBalance = DecimalToString(5)

FailedWith(c, errors) == outcome[c].kind = "raise" /\ outcome[c].error \in errors

\* p and q are the two calls made, both have finished, and their keys are
\* distinct
Spenders(p, q) ==
  /\ p # q /\ Finished(p) /\ Finished(q)
  /\ req[p].idempotencyKey # req[q].idempotencyKey
  /\ \A r \in Calls \ {p, q} : pc[r] = "idle"

C20_OneSucceedsOtherInsufficient ==
  \A p \in Calls, q \in Calls :
     Spenders(p, q)
     => \/ Succeeded5(p) /\ FailedWith(q, {"INSUFFICIENT_BALANCE"})
        \/ Succeeded5(q) /\ FailedWith(p, {"INSUFFICIENT_BALANCE"})

\* the errors with which the losing spender can end: the balance check,
\* three acquisition attempts that each found a lock held, and, after a
\* lock expired while held, the lost compare-and-swap on the source, the
\* serialization failure, or the abort of a wait for the row
LoserErrors ==
  {"INSUFFICIENT_BALANCE", FailedToAcquire} \cup
  ConflictErrors("CONCURRENT_MODIFICATION_SOURCE") \cup
  {AbortedWait}

\* C20 as amended: exactly one spender succeeds with fromBalance 5; the
\* other fails with INSUFFICIENT_BALANCE, with the lock acquisition
\* failure, or with a conflict error of the database transaction.
C20_OneSucceedsOtherFails ==
  \A p \in Calls, q \in Calls :
     Spenders(p, q)
     => \/ Succeeded5(p) /\ FailedWith(q, LoserErrors) /\ ~Committed(q)
        \/ Succeeded5(q) /\ FailedWith(p, LoserErrors) /\ ~Committed(p)

\* no lock expired, one spender succeeded, and the other exhausted its
\* acquisition attempts while the first held the locks
C20_Witness ==
  \E p \in Calls, q \in Calls :
     /\ Spenders(p, q) /\ expiries = 0
     /\ Succeeded5(p)
     /\ FailedWith(q, {FailedToAcquire})
     /\ wallets[U1_GOLD].balance = 5

(***************************************************************************)
(* C21.  Result of a committed transfer from F to T (F # T) of amount a:   *)
(* the commit sets F's balance to its balance before minus a and T's to    *)
(* its balance before plus a, and raises both versions by one; the         *)
(* fromBalance and toBalance the call returns are the strings of those two *)
(* balances.                                                               *)
(***************************************************************************)
\* the step in which the database transaction of c commits
Commits(c) == pc[c] = "commit" /\ pc'[c] # "commit"

IsTransfer(c) == hasFrom(c) /\ req[c].fromWalletId # req[c].toWalletId

C21_CommitStep ==
  \A c \in Calls :
     (Commits(c) /\ IsTransfer(c))
     => LET F == req[c].fromWalletId
            T == req[c].toWalletId
            a == req[c].amount
        IN /\ wallets'[F].balance = wallets[F].balance - a
           /\ wallets'[T].balance = wallets[T].balance + a
           /\ wallets'[F].version = wallets[F].version + 1
           /\ wallets'[T].version = wallets[T].version + 1
           /\ buf'[c].result.fromBalance = DecimalToString(wallets[F].balance - a)
           /\ buf'[c].result.toBalance = DecimalToString(wallets[T].balance + a)

\* from its commit to its return a call keeps the result, and returns it
C21_ReturnStep ==
  \A c \in Calls :
     /\ (pc[c] \in {"release", "releaseDel", "store"} /\ err[c] = "" /\ Committed(c))
        => buf'[c].result = buf[c].result
     /\ (Settles(c) /\ err[c] = "")
        => outcome'[c] = [kind |-> "return", result |-> buf[c].result, error |-> ""]

C21_TransferResult == [][C21_CommitStep /\ C21_ReturnStep]_vars

\* the purchase of 10 from the user wallet of 15 to the empty Revenue
\* wallet returned "5" and "10", and both wallets are at version 1
C21_Witness ==
  \E c \in Calls :
     /\ Finished(c) /\ ~FromCache(c) /\ outcome[c].kind = "return"
     /\ IsTransfer(c)
     /\ outcome[c].result.fromBalance = <<"5">>
     /\ outcome[c].result.toBalance = <<"1", "0">>
     /\ wallets[req[c].fromWalletId] = [SeedWallets[req[c].fromWalletId] EXCEPT
                                          !.balance = 5, !.version = 1]
     /\ wallets[req[c].toWalletId] = [SeedWallets[req[c].toWalletId] EXCEPT
                                        !.balance = 10, !.version = 1]

(***************************************************************************)
(* C22.  Bonus to a fresh user: from the seeded state (Revenue balance 0)  *)
(* with the auto-created wallet U3_GOLD of balance 0 and version 0,        *)
(* executeTransaction(BONUS, from Revenue, to U3_GOLD, amount 50)          *)
(* completes and leaves U3_GOLD with balance 50 and version 1.             *)
(***************************************************************************)
\* c is the only call made, it carried the bonus, and it has finished
BonusAlone(c) ==
  /\ Finished(c)
  /\ req[c].type = "BONUS" /\ req[c].fromWalletId = REVENUE_GOLD
  /\ req[c].toWalletId = U3_GOLD /\ req[c].amount = 50
  /\ \A d \in Calls \ {c} : pc[d] = "idle"

C22_BonusToFreshUser ==
  \A c \in Calls :
     BonusAlone(c)
     => /\ outcome[c].kind = "return"
        /\ outcome[c].result.status = "COMPLETED"
        /\ wallets[U3_GOLD].balance = 50
        /\ wallets[U3_GOLD].version = 1

(***************************************************************************)
(* C23.  Positive amounts only: a call whose operation has an amount that  *)
(* is zero or negative fails inside the double-entry writer and commits no *)
(* header, no ledger entry and no wallet update.                           *)
(***************************************************************************)
C23_PositiveAmountsOnly ==
  \A c \in Calls :
     req[c].amount <= 0
     => /\ ~Committed(c)
        /\ EntriesOfTx(transactionId(c)) = {}
        /\ (Finished(c) /\ ~FromCache(c)) => outcome[c].kind = "raise"

(***************************************************************************)
(* C24.  Canonical lock order: localeCompare is one total order on the     *)
(* wallet ids; in every acquisition attempt a call requests its locks in   *)
(* ascending order of it; so two calls whose wallet sets share the ids A   *)
(* and B request A and B in the same relative order.                       *)
(***************************************************************************)
\* the entries of locks that call c pushed in its current attempt
ThisAttempt(c) ==
  SubSeq(locks[c], Len(locks[c]) - idx[c] + 2, Len(locks[c]))

\* the position at which call c requests id w
Pos(c, w) ==
  LET sortedIds == sortIds(walletIds(req[c]))
  IN CHOOSE i \in 1..Len(sortedIds) : sortedIds[i] = w

Shared(c, d) ==
  ({req[c].fromWalletId, req[c].toWalletId} \cap
   {req[d].fromWalletId, req[d].toWalletId}) \ {NoWallet}

C24_SameRelativeOrder ==
  /\ \A a \in DOMAIN IdRank, b \in DOMAIN IdRank :
        /\ a # b => localeCompare(a, b) # 0
        /\ localeCompare(a, b) = 0 - localeCompare(b, a)
  /\ \A c \in Calls, d \in Calls :
        (pc[c] # "idle" /\ pc[d] # "idle")
        => \A A \in Shared(c, d), B \in Shared(c, d) :
             (Pos(c, A) < Pos(c, B)) <=> (Pos(d, A) < Pos(d, B))

C24_AscendingRequests ==
  \A c \in Calls :
     (AcquireStep(c) /\ lock[Requested(c)] = NoToken)
     => /\ lock' = [lock EXCEPT ![Requested(c)] = NewToken(c)]
        /\ Len(ThisAttempt(c)) = idx[c] - 1
        /\ \A i \in 1..Len(ThisAttempt(c)) :
             localeCompare(ThisAttempt(c)[i].id, Requested(c)) < 0

C24_CanonicalLockOrder ==
  []C24_SameRelativeOrder /\ [][C24_AscendingRequests]_vars

\* two calls that name the same two wallets in opposite directions: one
\* holds both locks, the other asked for the same first lock and was
\* refused
C24_Witness ==
  \E c \in Calls, d \in Calls :
     /\ req[c].fromWalletId = req[d].toWalletId
     /\ req[c].toWalletId = req[d].fromWalletId
     /\ pc[c] = "transaction"
     /\ Holds(c, req[c].fromWalletId) /\ Holds(c, req[c].toWalletId)
     /\ pc[d] = "acquire" /\ idx[d] = 1 /\ attempt[d] > 0 /\ opened[d] = 0

(***************************************************************************)
(* C25.  No partial holding across retries: a call that starts an          *)
(* acquisition attempt holds none of its locks; what an attempt obtained   *)
(* before it failed was released before the backoff and the next           *)
(* attempt's first acquire.                                                *)
(***************************************************************************)
\* some lock key holds a token that call c wrote
HoldsAny(c) == \E w \in DOMAIN lock : Holds(c, w)

C25_NoPartialHolding ==
  \A c \in Calls : (pc[c] = "acquire" /\ idx[c] = 1) => ~HoldsAny(c)

\* a call obtained its first lock, was refused the second, and stands at
\* the first acquire of its next attempt
C25_Witness ==
  \E c \in Calls :
     /\ pc[c] = "acquire" /\ idx[c] = 1 /\ attempt[c] > 0
     /\ opened[c] = 0
     /\ Len(locks[c]) > 0

(***************************************************************************)
(* C26.  Release order: when the work function has run, whether it         *)
(* returned or raised, the release loop that follows goes through the      *)
(* locks of the call in the reverse of the order in which they were        *)
(* acquired.                                                               *)
(***************************************************************************)
\* the work function of c ends in this step and a release loop begins
WorkEnds(c) ==
  /\ pc[c] \in {"transaction", "updateFrom", "updateTo", "commit"}
  /\ pc'[c] = "release"

C26_ReleaseInReverse ==
  [][\A c \in Calls : WorkEnds(c) => rel'[c] = Reverse(locks[c])]_vars

(***************************************************************************)
(* C27.  The in-flight marker is always cleared: a call that claimed       *)
(* processing:<key> finishes only by the step that deletes the marker, on  *)
(* the success path and on every failure path, and it reaches that step    *)
(* only by the step that stores its result (the success or the failure     *)
(* record) under idempotency:<key>.                                        *)
(***************************************************************************)
\* c has claimed the marker and has not finished
Claimed(c) == pc[c] \notin {"idle", "check", "mark", "done"}

\* the record stored under the key of c is the record of this execution
StoredOwnRecord(c) ==
  /\ idempotency'[req[c].idempotencyKey] # NoText
  /\ LET stored == JSONParse(idempotency'[req[c].idempotencyKey]) IN
       /\ stored.transactionId = transactionId(c)
       /\ stored.status = IF err[c] = "" THEN "COMPLETED" ELSE "FAILED"

C27_FinishStep(c) ==
  (Claimed(c) /\ pc'[c] = "done")
     => /\ pc[c] = "unmark"
        /\ req[c].idempotencyKey \notin processing'

C27_UnmarkStep(c) ==
  (pc[c] # "unmark" /\ pc'[c] = "unmark")
     => pc[c] = "store" /\ StoredOwnRecord(c)

C27_MarkerCleared ==
  [][\A c \in Calls : C27_FinishStep(c) /\ C27_UnmarkStep(c)]_vars

\* one call has finished on the success path and one on a failure path
\* of the work function, and no marker is left
C27_Witness ==
  \E c, d \in Calls :
     /\ pc[c] = "done" /\ outcome[c].kind = "return" /\ ~FromCache(c)
     /\ pc[d] = "done" /\ FailedWith(d, {"INSUFFICIENT_BALANCE"})
     /\ processing = {}

(***************************************************************************)
(* C28.  The coordinator retries only lock acquisition: when the work      *)
(* function raises, the error goes to the executor without the work        *)
(* function being invoked again, so one executeTransaction call opens the  *)
(* database transaction at most once.                                      *)
(***************************************************************************)
C28_WorkAttemptedOnce == \A c \in Calls : opened[c] <= 1

(***************************************************************************)
(* C29.  Retry budget: a call gives up on lock acquisition only after it   *)
(* has retried the whole acquisition attempt maxRetries times.             *)
(***************************************************************************)
\* withOrderedLocks throws the acquisition failure on to the executor
GivesUp(c) ==
  /\ pc[c] # "store" /\ pc'[c] = "store"
  /\ err'[c] = FailedToAcquire

\* the retries made so far: the attempts begun after the first one
Retries(c) == attempt[c]

C29_RetriedMaxRetriesTimes ==
  [][\A c \in Calls : GivesUp(c) => Retries(c) = maxRetries]_vars

(***************************************************************************)
(* C30.  No lock leak: once withOrderedLocks has finished for a call (it   *)
(* returned or raised, after any number of retries, the work function      *)
(* failed or not), no lock key holds a token this call acquired.           *)
(***************************************************************************)
\* withOrderedLocks has returned or thrown to the executor
CoordinatorFinished(c) == pc[c] \in {"store", "unmark", "done"}

C30_NoLockLeak == \A c \in Calls : CoordinatorFinished(c) => ~HoldsAny(c)

\* one call is back from the coordinator with a result and another after
\* the work function failed in every attempt
C30_Witness ==
  \E c, d \in Calls :
     /\ pc[c] \in {"store", "unmark"} /\ err[c] = "" /\ buf[c] # NoBuf
     /\ EndsInsufficient(d) /\ opened[d] = maxRetries

(***************************************************************************)
(* C31.  Writes only under lock: as long as no lock has expired, a call    *)
(* whose work function has started holds the lock of every wallet id in    *)
(* its set, and no two calls that share a wallet are inside their work     *)
(* functions (their database transactions) at the same time.               *)
(***************************************************************************)
\* the work function of c has started and has not ended
InWork(c) == pc[c] \in {"transaction", "updateFrom", "updateTo", "commit"}

WalletSet(c) == {walletIds(req[c])[i] : i \in 1..Len(walletIds(req[c]))}

C31_WorkHoldsAll ==
  \A c \in Calls : InWork(c) => \A w \in WalletSet(c) : Holds(c, w)

C31_NoSharedOverlap ==
  \A c, d \in Calls :
     (c # d /\ InWork(c) /\ InWork(d)) => WalletSet(c) \cap WalletSet(d) = {}

C31_WritesOnlyUnderLock ==
  ~lockExpired => (C31_WorkHoldsAll /\ C31_NoSharedOverlap)

\* a call has its database transaction open while another call that
\* shares a wallet with it has been refused a lock and retries
C31_Witness ==
  /\ ~lockExpired
  /\ \E c, d \in Calls :
        /\ c # d
        /\ pc[c] \in {"updateFrom", "updateTo", "commit"}
        /\ pc[d] = "acquire" /\ attempt[d] > 0 /\ opened[d] = 0
        /\ WalletSet(c) \cap WalletSet(d) # {}

(***************************************************************************)
(* C32.  No lost update without the lock: a writer whose read of a wallet  *)
(* has been overtaken by the commit of another writer does not commit; its *)
(* update of that wallet fails with CONCURRENT_MODIFICATION_SOURCE or      *)
(* CONCURRENT_MODIFICATION_DESTINATION, according to the wallet that       *)
(* changed, and nothing of it is persisted.                                *)
(***************************************************************************)
\* c is about to update a wallet whose row no longer has the version read
StaleSource(c) ==
  /\ pc[c] = "updateFrom"
  /\ ~versionMatches(c, req[c].fromWalletId, rd[c].from)
StaleDestination(c) ==
  /\ pc[c] = "updateTo"
  /\ ~versionMatches(c, req[c].toWalletId, rd[c].to)

\* the work function of c ends in this step with the error e
WorkRaises(c, e) == WorkEnds(c) /\ err'[c] = e /\ UNCHANGED dbVars

C32_StaleStep(c) ==
  /\ (StaleSource(c) /\ pc'[c] # pc[c])
        => WorkRaises(c, "CONCURRENT_MODIFICATION_SOURCE")
  /\ (StaleDestination(c) /\ pc'[c] # pc[c])
        => WorkRaises(c, "CONCURRENT_MODIFICATION_DESTINATION")

C32_LoserGetsConcurrentModification ==
  [][\A c \in Calls : C32_StaleStep(c)]_vars

(***************************************************************************)
(* C33.  Missing wallets: the double-entry writer fails with               *)
(* DESTINATION_WALLET_NOT_FOUND when the destination id matches no wallet  *)
(* row, and with SOURCE_WALLET_NOT_FOUND when a source id is supplied, the *)
(* destination exists and the source id matches no row; in both cases no   *)
(* ledger entry and no wallet update is written.                           *)
(***************************************************************************)
\* the header insert of c goes through and executeDoubleEntry runs in
\* this step
WriterRuns(c) ==
  /\ pc[c] = "transaction" /\ pc'[c] # "transaction"
  /\ ~KeyPendingByOther(c) /\ ~DuplicateKey(req[c].idempotencyKey)

DestinationMissing(c) == findUnique(req[c].toWalletId) = NoRow
SourceMissing(c) ==
  /\ hasFrom(c) /\ findUnique(req[c].fromWalletId) = NoRow
  /\ ~DestinationMissing(c)

C33_WriterStep(c) ==
  /\ DestinationMissing(c)
       => WorkRaises(c, "DESTINATION_WALLET_NOT_FOUND") /\ buf'[c] = NoBuf
  /\ SourceMissing(c)
       => WorkRaises(c, "SOURCE_WALLET_NOT_FOUND") /\ buf'[c] = NoBuf

\* no row of the ledger names an id without a wallet row
C33_NoEntryForMissing ==
  \A i \in 1..Len(ledger) :
     /\ ledger[i].walletId \in DOMAIN wallets
     /\ ledger[i].counterpartyWalletId \in DOMAIN wallets \cup {NoWallet}

C33_MissingWallets ==
  /\ [][\A c \in Calls : WriterRuns(c) => C33_WriterStep(c)]_vars
  /\ []C33_NoEntryForMissing

\* one call has ended for a missing destination and one for a missing
\* source
C33_Witness ==
  \E c, d \in Calls :
     /\ pc[c] = "done" /\ FailedWith(c, {"DESTINATION_WALLET_NOT_FOUND"})
     /\ pc[d] = "done" /\ FailedWith(d, {"SOURCE_WALLET_NOT_FOUND"})
     /\ ledger = <<>>

(***************************************************************************)
(* C34.  A stored success is never replaced by a failure: while the        *)
(* COMPLETED Transaction row of key k exists, no step writes a FAILED      *)
(* record under idempotency:k, whatever the interleaving of the calls      *)
(* that use k.                                                             *)
(***************************************************************************)
\* this step writes a FAILED record under idempotency:k
StoresFailed(k) ==
  /\ idempotency'[k] # idempotency[k]
  /\ idempotency'[k] # NoText
  /\ JSONParse(idempotency'[k]).status = "FAILED"

C34_SuccessNotReplaced ==
  [][\A k \in Keys : DuplicateKey(k) => ~StoresFailed(k)]_vars

(***************************************************************************)
(* C35.  At most one execution per key at a time: no two calls with the    *)
(* same idempotency key are both past the claim of the marker and before   *)
(* its deletion, also when the marker reaches its TTL while its owner is   *)
(* still running.                                                          *)
(***************************************************************************)
C35_OneExecutionPerKey ==
  \A c, d \in Calls :
     (c # d /\ Claimed(c) /\ Claimed(d))
        => req[c].idempotencyKey # req[d].idempotencyKey

(***************************************************************************)
(* C36.  Conservation: the commit of an executeTransaction whose operation *)
(* has a source wallet leaves the sum of all wallet balances unchanged;    *)
(* so while every committed transaction had a source wallet, the sum is    *)
(* the seeded total.                                                       *)
(***************************************************************************)
RECURSIVE SumBalances(_, _)
SumBalances(ws, S) ==
  IF S = {} THEN 0
  ELSE LET w == CHOOSE x \in S : TRUE
       IN ws[w].balance + SumBalances(ws, S \ {w})

TotalBalance(ws) == SumBalances(ws, DOMAIN ws)

\* every committed transaction had a source wallet
AllSourced == \A n \in 1..Len(transactions) : hasFrom(transactions[n].id)

C36_ConservingCommit ==
  \A c \in Calls :
     (Commits(c) /\ hasFrom(c)) => TotalBalance(wallets') = TotalBalance(wallets)

C36_SeededTotal == AllSourced => TotalBalance(wallets) = TotalBalance(SeedWallets)

C36_Conservation == [][C36_ConservingCommit]_vars /\ []C36_SeededTotal

\* a purchase has committed, alone or after a mint
C36_Witness ==
  \E n \in 1..Len(transactions) :
     /\ hasFrom(transactions[n].id)
     /\ wallets[REVENUE_GOLD].balance = 10

(***************************************************************************)
(* C37.  Self-transfer never commits: a call whose fromWalletId equals its *)
(* toWalletId never reaches its commit and changes no wallet, ledger or    *)
(* transaction row, and when it has executed (it was not answered from the *)
(* cache) it ends with an error.                                           *)
(***************************************************************************)
IsSelfTransfer(c) == hasFrom(c) /\ req[c].fromWalletId = req[c].toWalletId

C37_NoCommit ==
  \A c \in Calls :
     IsSelfTransfer(c)
        => /\ pc[c] # "commit"
           /\ ~Committed(c)
           /\ (Finished(c) /\ ~FromCache(c)) => outcome[c].kind = "raise"

C37_NoRowChanged ==
  \A c \in Calls :
     (IsSelfTransfer(c) /\ pc'[c] # pc[c]) => UNCHANGED dbVars

C37_SelfTransferFails == []C37_NoCommit /\ [][C37_NoRowChanged]_vars

\* one self-transfer was refused its second lock in every attempt; another
\* got both locks after an expiry and lost the compare-and-swap on its own
\* update
C37_Witness ==
  \E c, d \in Calls :
     /\ IsSelfTransfer(c) /\ Finished(c) /\ FailedWith(c, {FailedToAcquire})
     /\ IsSelfTransfer(d) /\ Finished(d)
     /\ FailedWith(d, ConflictErrors("CONCURRENT_MODIFICATION_DESTINATION"))

(***************************************************************************)
(* C38.  Strictly increasing running balance as claimed: for every wallet, *)
(* the runningBalance values of its ledger entries, taken in commit order, *)
(* form a strictly increasing sequence.                                    *)
(***************************************************************************)
\* entry i was committed before entry j
InCommitOrder(i, j) == i < j

\* entries i and j of wallet w follow each other in commit order
Consecutive(w, i, j) ==
  /\ i \in EntriesOfWallet(w) /\ j \in EntriesOfWallet(w)
  /\ InCommitOrder(i, j)
  /\ ~\E k \in EntriesOfWallet(w) : InCommitOrder(i, k) /\ InCommitOrder(k, j)

C38_StrictlyIncreasing ==
  \A w \in DOMAIN wallets : \A i, j \in 1..Len(ledger) :
     Consecutive(w, i, j) => ledger[i].runningBalance < ledger[j].runningBalance

\* C38 as amended: in commit order the runningBalance of a wallet rises
\* exactly at the entries that add to it (a CREDIT of a positive amount, a
\* DEBIT of a negative one), falls exactly at the entries that take from
\* it, and stays at an entry of amount 0.
C38_MovesWithEntry ==
  \A w \in DOMAIN wallets : \A i, j \in 1..Len(ledger) :
     Consecutive(w, i, j)
        => /\ (ledger[j].runningBalance > ledger[i].runningBalance) <=> (Signed(j) > 0)
           /\ (ledger[j].runningBalance < ledger[i].runningBalance) <=> (Signed(j) < 0)

\* a wallet whose credit was followed by a debit
C38_Witness ==
  \E i, j \in 1..Len(ledger) :
     /\ Consecutive(U1_GOLD, i, j)
     /\ ledger[i].entryType = "CREDIT" /\ ledger[j].entryType = "DEBIT"
     /\ ledger[j].runningBalance < ledger[i].runningBalance

(***************************************************************************)
(* C39.  Append-only records: no step modifies or deletes a committed      *)
(* ledger entry or transaction header (the rows of both tables stay as     *)
(* they are and new rows come after them), and every transaction header    *)
(* has status COMPLETED.                                                   *)
(***************************************************************************)
\* the rows of table s are the first rows of table t, unchanged
KeepsRows(s, t) == Len(s) <= Len(t) /\ \A i \in 1..Len(s) : t[i] = s[i]

C39_RowsKept == KeepsRows(ledger, ledger') /\ KeepsRows(transactions, transactions')

C39_AllCompleted ==
  \A n \in 1..Len(transactions) : transactions[n].status = "COMPLETED"

C39_AppendOnly == [][C39_RowsKept]_vars /\ []C39_AllCompleted

\* a second transaction has committed after a first
C39_Witness == Len(transactions) = 2 /\ Len(ledger) >= 2

(***************************************************************************)
(* C40.  Balance matches last entry: for every wallet that has a ledger    *)
(* entry, the runningBalance of the entry written by the transaction that  *)
(* committed last on the wallet equals the stored balance of the wallet.   *)
(***************************************************************************)
\* the entry of wallet w that was committed last
LastEntry(w) == CHOOSE i \in EntriesOfWallet(w) : \A j \in EntriesOfWallet(w) : j <= i

C40_BalanceIsLastEntry ==
  \A w \in DOMAIN wallets :
     EntriesOfWallet(w) # {} => ledger[LastEntry(w)].runningBalance = wallets[w].balance

\* a wallet with a credit and a debit, and a wallet with one credit
C40_Witness ==
  /\ Cardinality(EntriesOfWallet(U1_GOLD)) = 2
  /\ Cardinality(EntriesOfWallet(REVENUE_GOLD)) = 1
  /\ wallets[REVENUE_GOLD].balance = 10

====
